---- MODULE Spec2Model ----
(***************************************************************************)
(* A model of the investment backend of the personal finance tracker:      *)
(*   - CurrencyService (services/coinService.js, second class of the file): *)
(*     the cached FX rate table, getExchangeRates, convert, getRate;       *)
(*   - CoinService.getPrices / getFallbackPrices: the price cache;         *)
(*   - the Investment model's pre-save hook and the create and sell routes *)
(*     of routes/investments.js.                                           *)
(* JavaScript Numbers are modelled as exact rationals <<n, d>> in lowest   *)
(* terms (d > 0); <<0, 0>> stands for undefined/null.                      *)
(***************************************************************************)
EXTENDS Integers, Sequences, FiniteSets, TLC

VARIABLES
    now,        \* Date.now(), in milliseconds
    fx,         \* CurrencyService.cache: [filled, rates, timestamp]
    fxCall,     \* the last convert/getRate call and what it did
    priceCache, \* CoinService.cache (NodeCache): a set of [key, expires, data]
    call,       \* the getPrices calls in flight, by caller
    inv,        \* the stored Investment document (one record of the collection)
    created,    \* the response of the create request
    req,        \* the sell requests, by request
    folio,      \* the Investment documents of the user, as find() returns them
    view,       \* the last valuation response: quotes, enriched list, analytics
    transactions, \* the Transaction documents of the user, by _id
    budgets     \* the Budget documents of the user, in insertion order

vars == <<now, fx, fxCall, priceCache, call, inv, created, req, folio, view,
          transactions, budgets>>

(***************************************************************************)
(* Bounds of the model.                                                    *)
(***************************************************************************)
MaxLots == 5        \* quantities are 1..MaxLots lots of QtyUnit
MaxReqs == 2        \* sell requests issued against the investment
MaxIds == 2         \* length of the id list of a getPrices call
MaxCalls == 2       \* getPrices calls in flight at once
MaxTicks == 2       \* clock ticks of a behaviour

(***************************************************************************)
(* Numbers.                                                                *)
(***************************************************************************)
RECURSIVE GCD(_, _)
GCD(a, b) == IF b = 0 THEN a ELSE GCD(b, a % b)

Abs(x) == IF x < 0 THEN -x ELSE x

Rat(n, d) ==
    LET g == GCD(Abs(n), Abs(d))
        s == IF d < 0 THEN -1 ELSE 1
    IN  <<(s * n) \div g, (s * d) \div g>>

Undef == <<0, 0>>

Num(n) == <<n, 1>>

RAdd(a, b) == Rat(a[1] * b[2] + b[1] * a[2], a[2] * b[2])

RSub(a, b) == Rat(a[1] * b[2] - b[1] * a[2], a[2] * b[2])

RMul(a, b) ==
    LET x == Rat(a[1], b[2])
        y == Rat(b[1], a[2])
    IN  Rat(x[1] * y[1], x[2] * y[2])

RDiv(a, b) == RMul(a, IF b[1] < 0 THEN <<-b[2], -b[1]>> ELSE <<b[2], b[1]>>)

RLt(a, b) == a[1] * b[2] < b[1] * a[2]

RLe(a, b) == a[1] * b[2] <= b[1] * a[2]

\* JavaScript truthiness of a Number: neither undefined nor 0.
Truthy(a) == a # Undef /\ a[1] # 0

(***************************************************************************)
(* CurrencyService.                                                        *)
(***************************************************************************)
Currencies == {"PKR", "USD", "EUR", "JPY"}

FxTtl == 3600000

\* this.fallbackRates: JPY is a currency the static table does not list.
fallbackRates ==
    [c \in Currencies |->
        CASE c = "PKR" -> Num(280)
          [] c = "USD" -> Num(1)
          [] c = "EUR" -> Rat(92, 100)
          [] OTHER -> Undef]

\* The tables a rate source may answer with (response.data.rates). The
\* primary source lists every currency, the secondary one lists no PKR.
PrimaryTable ==
    [c \in Currencies |->
        CASE c = "PKR" -> Num(285)
          [] c = "USD" -> Num(1)
          [] c = "EUR" -> Rat(9, 10)
          [] OTHER -> Num(150)]

SecondaryTable ==
    [c \in Currencies |->
        CASE c = "EUR" -> Rat(91, 100)
          [] c = "JPY" -> Num(151)
          [] OTHER -> Undef]

NoTable == [c \in Currencies |-> Undef]

\* What the two rate sources do during one getExchangeRates call: each
\* either answers with its table or fails (error or 5 s timeout).
FxOutcomes ==
    [primary : {[ok |-> TRUE, rates |-> PrimaryTable], [ok |-> FALSE, rates |-> NoTable]},
     secondary : {[ok |-> TRUE, rates |-> SecondaryTable], [ok |-> FALSE, rates |-> NoTable]}]

\* A response of the primary source that lists PKR with the rate 0 (or null)
\* and no JPY: the spread keeps the 0 over the static 280.
DegenerateTable ==
    [c \in Currencies |->
        CASE c = "PKR" -> Num(0)
          [] c = "USD" -> Num(1)
          [] c = "EUR" -> Rat(9, 10)
          [] OTHER -> Undef]

\* FxOutcomes and the calls the primary source answers with that table.
AnyFxOutcomes ==
    FxOutcomes \cup
        [primary : {[ok |-> TRUE, rates |-> DegenerateTable]},
         secondary : {[ok |-> FALSE, rates |-> NoTable]}]

EmptyFx == [filled |-> FALSE, rates |-> NoTable, timestamp |-> 0]

\* { ...this.fallbackRates, ...rates }
MergeRates(rates) ==
    [c \in Currencies |-> IF rates[c] # Undef THEN rates[c] ELSE fallbackRates[c]]

\* A table still good at the very end of its hour.
FxCacheValidInclusive(cache, t) ==
    cache.filled /\ cache.timestamp # 0 /\ t - cache.timestamp <= FxTtl

FxCacheValid(cache, t) ==
    cache.filled /\ cache.timestamp # 0 /\ t - cache.timestamp < FxTtl

\* getExchangeRates leaving the cache alone when both sources fail.
getExchangeRatesUncachedFallback(cache, t, o) ==
    IF FxCacheValid(cache, t)
    THEN [rates |-> cache.rates, cache |-> cache, contacted |-> <<>>]
    ELSE IF ~o.primary.ok /\ ~o.secondary.ok
    THEN [rates |-> fallbackRates, cache |-> cache,
          contacted |-> <<"primary", "secondary">>]
    ELSE LET finalRates == MergeRates(IF o.primary.ok THEN o.primary.rates
                                      ELSE o.secondary.rates)
         IN  [rates |-> finalRates,
              cache |-> [filled |-> TRUE, rates |-> finalRates, timestamp |-> t],
              contacted |-> IF o.primary.ok THEN <<"primary">>
                            ELSE <<"primary", "secondary">>]

\* getExchangeRates asking the secondary source first.
getExchangeRatesSecondaryFirst(cache, t, o) ==
    IF FxCacheValid(cache, t)
    THEN [rates |-> cache.rates, cache |-> cache, contacted |-> <<>>]
    ELSE LET rates == IF o.secondary.ok THEN o.secondary.rates
                      ELSE IF o.primary.ok THEN o.primary.rates
                      ELSE fallbackRates
             finalRates == MergeRates(rates)
         IN  [rates |-> finalRates,
              cache |-> [filled |-> TRUE, rates |-> finalRates, timestamp |-> t],
              contacted |-> IF o.secondary.ok THEN <<"secondary">>
                            ELSE <<"secondary", "primary">>]

\* getExchangeRates at time t, the sources behaving as o: the table returned,
\* the cache afterwards and the sources contacted, in order.
getExchangeRates(cache, t, o) ==
    IF FxCacheValid(cache, t)
    THEN [rates |-> cache.rates, cache |-> cache, contacted |-> <<>>]
    ELSE LET rates == IF o.primary.ok THEN o.primary.rates
                      ELSE IF o.secondary.ok THEN o.secondary.rates
                      ELSE fallbackRates
             finalRates == MergeRates(rates)
         IN  [rates |-> finalRates,
              cache |-> [filled |-> TRUE, rates |-> finalRates, timestamp |-> t],
              contacted |-> IF o.primary.ok THEN <<"primary">>
                            ELSE <<"primary", "secondary">>]

\* convert without its first line: equal currencies go through the table.
convertViaTable(amount, from, to, cache, t, o) ==
    LET g == getExchangeRates(cache, t, o)
        fromRate == g.rates[from]
        toRate == g.rates[to]
    IN  [value |-> IF ~Truthy(fromRate) \/ ~Truthy(toRate) THEN amount
                   ELSE RMul(RDiv(amount, fromRate), toRate),
         cache |-> g.cache, contacted |-> g.contacted, readCache |-> TRUE]

\* convert whose fallback logic returns the amount for every pair.
convertIdentityOnly(amount, from, to, cache, t, o) ==
    IF from = to
    THEN [value |-> amount, cache |-> cache, contacted |-> <<>>, readCache |-> FALSE]
    ELSE LET g == getExchangeRates(cache, t, o)
             fromRate == g.rates[from]
             toRate == g.rates[to]
         IN  [value |-> IF ~Truthy(fromRate) \/ ~Truthy(toRate) THEN amount
                        ELSE RMul(RDiv(amount, fromRate), toRate),
              cache |-> g.cache, contacted |-> g.contacted, readCache |-> TRUE]

\* convert(amount, fromCurrency, toCurrency)
convert(amount, from, to, cache, t, o) ==
    IF from = to
    THEN [value |-> amount, cache |-> cache, contacted |-> <<>>, readCache |-> FALSE]
    ELSE LET g == getExchangeRates(cache, t, o)
             fromRate == g.rates[from]
             toRate == g.rates[to]
             value == IF ~Truthy(fromRate) \/ ~Truthy(toRate)
                      THEN IF from = "PKR" /\ to = "USD" THEN RDiv(amount, Num(280))
                           ELSE IF from = "USD" /\ to = "PKR" THEN RMul(amount, Num(280))
                           ELSE amount
                      ELSE RMul(RDiv(amount, fromRate), toRate)
         IN  [value |-> value, cache |-> g.cache, contacted |-> g.contacted,
              readCache |-> TRUE]

\* getRate(fromCurrency, toCurrency)
getRate(from, to, cache, t, o) ==
    IF from = to
    THEN [value |-> Num(1), cache |-> cache, contacted |-> <<>>, readCache |-> FALSE]
    ELSE LET g == getExchangeRates(cache, t, o)
             fromRate == g.rates[from]
             toRate == g.rates[to]
             value == IF ~Truthy(fromRate) \/ ~Truthy(toRate)
                      THEN IF from = "USD" /\ to = "PKR" THEN Num(280)
                           ELSE IF from = "PKR" /\ to = "USD" THEN Rat(1, 280)
                           ELSE Num(1)
                      ELSE RDiv(toRate, fromRate)
         IN  [value |-> value, cache |-> g.cache, contacted |-> g.contacted,
              readCache |-> TRUE]

(***************************************************************************)
(* CoinService: the price cache.                                           *)
(***************************************************************************)
\* this.supportedCoins, restricted to two of its six ids; "dogecoin" is an
\* id the service does not recognize.
SupportedIds == {"bitcoin", "ethereum"}

CoinIds == SupportedIds \cup {"dogecoin"}

\* The ids in the order Array.prototype.sort gives them.
CoinOrder == <<"bitcoin", "dogecoin", "ethereum">>

Rank(id) == CHOOSE i \in DOMAIN CoinOrder : CoinOrder[i] = id

IdLists == UNION {[1..n -> CoinIds] : n \in 0..MaxIds}

Elems(ids) == {ids[i] : i \in DOMAIN ids}

\* stdTTL of the NodeCache, in seconds.
PriceTtl == 60

NoQuote == [has |-> FALSE, usd |-> Undef, local |-> Undef, exchange_rate |-> Undef]

NoPrices == [c \in CoinIds |-> NoQuote]

\* The prices (USD) the external source quotes, by market situation.
Markets == {"up", "down"}

SourcePrice(c, m) ==
    CASE c = "bitcoin" -> IF m = "up" THEN Num(50000) ELSE Num(40000)
      [] c = "ethereum" -> IF m = "up" THEN Num(3500) ELSE Num(2500)
      [] OTHER -> Undef

\* What the price source does with one request: it answers for some of the
\* ids asked for (none: an empty response), or the request fails. That it
\* never answers is no outcome: the call then stays in flight.
PriceOutcomes(ids) ==
    [kind : {"answer"}, answered : SUBSET ids, market : Markets]
        \cup {[kind |-> "error", answered |-> {}, market |-> "up"]}

\* coinIds.sort(), by insertion.
RECURSIVE SortIds(_)
SortIds(ids) ==
    IF ids = <<>> THEN <<>>
    ELSE LET x == Head(ids)
             rest == SortIds(Tail(ids))
             IsBefore(y) == Rank(y) < Rank(x)
             IsAfter(y) == ~(Rank(y) < Rank(x))
         IN  SelectSeq(rest, IsBefore) \o <<x>> \o SelectSeq(rest, IsAfter)

\* `prices_${userCurrency}_${coinIds.sort().join('_')}`
cacheKey(ids, cur) == <<cur, SortIds(ids)>>

\* [...new Set(coinIds)] filtered to the supported coins.
validIds(ids) == Elems(ids) \cap SupportedIds

\* A cache whose entries are good for half the ttl only.
CacheHitHalfTtl(cache, key, t) ==
    \E e \in cache : e.key = key /\ ~(e.expires - 30000 < t)

\* NodeCache.get: the value stored under the key unless its ttl has passed.
CacheHit(cache, key, t) == \E e \in cache : e.key = key /\ ~(e.expires < t)

CacheGet(cache, key, t) == (CHOOSE e \in cache : e.key = key /\ ~(e.expires < t)).data

\* NodeCache.get deletes the entry it finds expired.
CacheAfterGet(cache, key, t) == {e \in cache : ~(e.key = key /\ e.expires < t)}

\* NodeCache.set with the standard ttl.
CacheSet(cache, key, data, t) ==
    {e \in cache : e.key # key}
        \cup {[key |-> key, expires |-> t + PriceTtl * 1000, data |-> data]}

fallbackUsd(c) ==
    CASE c = "bitcoin" -> Num(45000)
      [] c = "ethereum" -> Num(3000)
      [] OTHER -> Undef

getFallbackPrices(ids, cur) ==
    [c \in CoinIds |->
        IF c \in Elems(ids) /\ fallbackUsd(c) # Undef
        THEN [has |-> TRUE, usd |-> fallbackUsd(c),
              local |-> IF cur = "USD" THEN Undef ELSE RMul(fallbackUsd(c), Num(280)),
              exchange_rate |-> Undef]
        ELSE NoQuote]

\* The result built from a non-empty response (lines 60-81).
PriceResult(answered, market, cur, exchangeRate) ==
    [c \in CoinIds |->
        IF c \in answered
        THEN [has |-> TRUE, usd |-> SourcePrice(c, market),
              local |-> IF cur = "USD" THEN Undef
                        ELSE RMul(SourcePrice(c, market), exchangeRate),
              exchange_rate |-> IF cur = "USD" THEN Undef ELSE exchangeRate]
        ELSE NoQuote]

\* getPrices up to its request to the source: a cache hit or an empty list
\* of valid ids returns at once, otherwise the request is sent.
PricesBegin(ids, cur, force, cache, t) ==
    LET key == cacheKey(ids, cur)
    IN  IF ~force /\ CacheHit(cache, key, t)
        THEN [returned |-> TRUE, how |-> "cached", result |-> CacheGet(cache, key, t),
              cache |-> cache]
        ELSE IF validIds(ids) = {}
        THEN [returned |-> TRUE, how |-> "fallback",
              result |-> getFallbackPrices(ids, cur),
              cache |-> IF force THEN cache ELSE CacheAfterGet(cache, key, t)]
        ELSE [returned |-> FALSE, how |-> "fetching", result |-> NoPrices,
              cache |-> IF force THEN cache ELSE CacheAfterGet(cache, key, t)]

\* getPrices from the source's reaction on: the response handled (lines
\* 55-86) or the error caught (lines 88-99).
PricesEnd(ids, cur, po, cache, fxc, t, fxo) ==
    LET key == cacheKey(ids, cur)
        answered == po.answered \cap validIds(ids)
    IN  IF po.kind = "error"
        THEN IF CacheHit(cache, key, t)
             THEN [how |-> "stale", result |-> CacheGet(cache, key, t),
                   cache |-> cache, fx |-> fxc]
             ELSE [how |-> "fallback", result |-> getFallbackPrices(ids, cur),
                   cache |-> CacheAfterGet(cache, key, t), fx |-> fxc]
        ELSE IF answered = {}
        THEN [how |-> "fallback", result |-> getFallbackPrices(ids, cur),
              cache |-> cache, fx |-> fxc]
        ELSE LET cv == convert(Num(1), "USD", cur, fxc, t, fxo)
                 result == PriceResult(answered, po.market, cur, cv.value)
             IN  [how |-> "fetched", result |-> result,
                  cache |-> CacheSet(cache, key, result, t), fx |-> cv.cache]

\* A whole getPrices call whose source reacts as po.
getPrices(ids, cur, force, cache, fxc, t, po, fxo) ==
    LET b == PricesBegin(ids, cur, force, cache, t)
    IN  IF b.returned
        THEN [how |-> b.how, result |-> b.result, cache |-> b.cache, fx |-> fxc]
        ELSE PricesEnd(ids, cur, po, b.cache, fxc, t, fxo)

(***************************************************************************)
(* The Investment model and the create and sell routes.                    *)
(***************************************************************************)
\* Quantities are whole numbers of lots of 0.002 coins.
QtyUnit == Rat(1, 500)

Lots(k) == RMul(Num(k), QtyUnit)

NoDate == "undefined"

SellDates == {"2024-06-01"}

SellPrices == {Num(11000000), Num(9000000)}

InvestedAmounts == {Num(100000), Rat(1, 50)}

\* The schema's min validators.
MinInvestedAmount == Rat(1, 100)

MinQuantity == Rat(1, 100000000)

MinPurchasePriceUSD == Rat(1, 100000000)

\* x >= m, for a minimum m = 1/d.
AtLeast(x, m) == x # Undef /\ (x[1] >= x[2] \/ x[1] * m[2] >= m[1] * x[2])

NoDoc ==
    [exists |-> FALSE, coinId |-> "bitcoin", investedAmount |-> Undef,
     quantity |-> Undef, originalCurrency |-> "PKR", exchangeRate |-> Undef,
     purchasePriceUSD |-> Undef, purchasePriceLocal |-> Undef,
     sellDate |-> NoDate, sellPriceUSD |-> Undef, sellPriceLocal |-> Undef,
     sellQuantity |-> Undef, realizedProfitLoss |-> Num(0),
     realizedProfitLossPercentage |-> Num(0), status |-> "active"]

Fields == DOMAIN NoDoc

\* The request bodies validateInvestment lets through: the validated fields
\* and whatever other fields the client sends, here the sell fields.
CreateBodies ==
    [coinId : {"bitcoin"},
     investedAmount : InvestedAmounts,
     quantity : {Lots(k) : k \in 1..MaxLots},
     sellDate : {NoDate} \cup SellDates,
     sellQuantity : {Undef, Lots(1)}]

\* The request bodies validateSell lets through.
SellBodies ==
    [sellQuantity : {Lots(k) : k \in 1..(MaxLots + 1)},
     sellPriceLocal : SellPrices,
     sellDate : SellDates]

\* Schema validation, run by save() before the pre-save hook.
Validate(doc) ==
    /\ AtLeast(doc.investedAmount, MinInvestedAmount)
    /\ AtLeast(doc.quantity, MinQuantity)
    /\ AtLeast(doc.purchasePriceUSD, MinPurchasePriceUSD)
    /\ doc.purchasePriceLocal # Undef

\* The division with its operands swapped.
PurchasePriceLocalSwapped(doc) == RDiv(doc.quantity, doc.investedAmount)

\* this.purchasePriceLocal = this.investedAmount / this.quantity
PurchasePriceLocal(doc) == RDiv(doc.investedAmount, doc.quantity)

\* The status the hook derives from the sell data.
HookStatus(doc) ==
    IF doc.sellDate # NoDate /\ Truthy(doc.sellQuantity)
    THEN IF ~RLt(doc.sellQuantity, doc.quantity) THEN "sold" ELSE "partial"
    ELSE doc.status

\* investmentSchema.pre('save'): `old` is the document as loaded (NoDoc for a
\* new one), `doc` the document being saved.
PreSave(old, doc) ==
    LET modified == \/ doc.investedAmount # old.investedAmount
                    \/ doc.quantity # old.quantity
                    \/ ~old.exists
        d1 == IF modified /\ Truthy(doc.investedAmount) /\ Truthy(doc.quantity)
              THEN [doc EXCEPT !.purchasePriceLocal = PurchasePriceLocal(doc)]
              ELSE doc
        d2 == IF modified /\ Truthy(d1.purchasePriceLocal) /\ Truthy(d1.exchangeRate)
              THEN [d1 EXCEPT !.purchasePriceUSD =
                                  RDiv(d1.purchasePriceLocal, d1.exchangeRate)]
              ELSE d1
    IN  [d2 EXCEPT !.status = HookStatus(d2)]

\* save() of a loaded document writes the paths changed since it was loaded
\* ($set of the modified paths) and leaves the others as stored.
WriteModified(stored, old, doc) ==
    [f \in Fields |-> IF doc[f] # old[f] THEN doc[f] ELSE stored[f]]

\* The document the create route builds (investmentData).
InvestmentData(body, exchangeRate, currentPriceUSD) ==
    [exists |-> TRUE, coinId |-> body.coinId, investedAmount |-> body.investedAmount,
     quantity |-> body.quantity, originalCurrency |-> "PKR",
     exchangeRate |-> exchangeRate, purchasePriceUSD |-> currentPriceUSD,
     purchasePriceLocal |-> RDiv(body.investedAmount, body.quantity),
     sellDate |-> body.sellDate, sellPriceUSD |-> Undef, sellPriceLocal |-> Undef,
     sellQuantity |-> body.sellQuantity, realizedProfitLoss |-> Num(0),
     realizedProfitLossPercentage |-> Num(0), status |-> "active"]

\* The check made against the invested amount instead of the quantity.
OverSellWrongField(body, doc) == RLt(doc.investedAmount, body.sellQuantity)

\* if (sellQuantity > investment.quantity)
OverSell(body, doc) == RLt(doc.quantity, body.sellQuantity)

SoldAmountLocal(body) == RMul(body.sellQuantity, body.sellPriceLocal)

\* (sellQuantity / investment.quantity) * investment.investedAmount
InvestedPortionLocal(body, doc) ==
    RMul(RDiv(body.sellQuantity, doc.quantity), doc.investedAmount)

\* The quantity left as it was.
RemainingQuantityKept(body, doc) == doc.quantity

\* The quantity and invested amount a partial sell leaves (lines 370-372).
RemainingQuantity(body, doc) == RSub(doc.quantity, body.sellQuantity)

\* The remaining share taken of the quantity already reduced.
RemainingInvestedLate(body, doc) ==
    RMul(doc.investedAmount,
         RSub(Num(1), RDiv(body.sellQuantity, RemainingQuantity(body, doc))))

RemainingInvested(body, doc) ==
    RMul(doc.investedAmount, RSub(Num(1), RDiv(body.sellQuantity, doc.quantity)))

\* The sale summary of the response.
SaleSummary(body, doc, exchangeRate) ==
    LET sellPriceUSD == RDiv(body.sellPriceLocal, exchangeRate)
        investedAmountUSD == RDiv(InvestedPortionLocal(body, doc), doc.exchangeRate)
        realizedProfitLossUSD == RSub(RMul(body.sellQuantity, sellPriceUSD), investedAmountUSD)
    IN  [quantitySold |-> body.sellQuantity,
         saleAmountLocal |-> SoldAmountLocal(body),
         saleAmountUSD |-> RMul(body.sellQuantity, sellPriceUSD),
         realizedProfitLossLocal |-> RSub(SoldAmountLocal(body), InvestedPortionLocal(body, doc)),
         realizedProfitLossUSD |-> realizedProfitLossUSD,
         realizedProfitLossPercentage |->
             RMul(RDiv(realizedProfitLossUSD, investedAmountUSD), Num(100))]

\* The assignments with the sold quantity and the realized profit added to
\* those of the sells before.
SellAssignAccumulating(body, doc, exchangeRate) ==
    LET sum == SaleSummary(body, doc, exchangeRate)
        d1 == [doc EXCEPT !.sellDate = body.sellDate,
                          !.sellPriceLocal = body.sellPriceLocal,
                          !.sellPriceUSD = RDiv(body.sellPriceLocal, exchangeRate),
                          !.sellQuantity =
                              IF doc.sellQuantity = Undef THEN body.sellQuantity
                              ELSE RAdd(doc.sellQuantity, body.sellQuantity),
                          !.realizedProfitLoss =
                              RAdd(doc.realizedProfitLoss, sum.realizedProfitLossLocal),
                          !.realizedProfitLossPercentage = sum.realizedProfitLossPercentage]
    IN  IF ~RLt(body.sellQuantity, doc.quantity)
        THEN [d1 EXCEPT !.status = "sold"]
        ELSE [d1 EXCEPT !.status = "partial",
                        !.quantity = RemainingQuantity(body, doc),
                        !.investedAmount = RemainingInvested(body, doc)]

\* The assignments of the sell route to the loaded document (lines 357-373).
SellAssign(body, doc, exchangeRate) ==
    LET sum == SaleSummary(body, doc, exchangeRate)
        d1 == [doc EXCEPT !.sellDate = body.sellDate,
                          !.sellPriceLocal = body.sellPriceLocal,
                          !.sellPriceUSD = RDiv(body.sellPriceLocal, exchangeRate),
                          !.sellQuantity = body.sellQuantity,
                          !.realizedProfitLoss = sum.realizedProfitLossLocal,
                          !.realizedProfitLossPercentage = sum.realizedProfitLossPercentage]
    IN  IF ~RLt(body.sellQuantity, doc.quantity)
        THEN [d1 EXCEPT !.status = "sold"]
        ELSE [d1 EXCEPT !.status = "partial",
                        !.quantity = RemainingQuantity(body, doc),
                        !.investedAmount = RemainingInvested(body, doc)]

NoSummary ==
    [quantitySold |-> Undef, saleAmountLocal |-> Undef, saleAmountUSD |-> Undef,
     realizedProfitLossLocal |-> Undef, realizedProfitLossUSD |-> Undef,
     realizedProfitLossPercentage |-> Undef]

Reqs == 1..MaxReqs

NoBody == [sellQuantity |-> Undef, sellPriceLocal |-> Undef, sellDate |-> NoDate]

IdleReq ==
    [pc |-> "idle", body |-> NoBody, doc |-> NoDoc, code |-> 0, error |-> "",
     saleSummary |-> NoSummary]

(***************************************************************************)
(* CoinService: valuation (enrichInvestments) and getPortfolioAnalytics.   *)
(***************************************************************************)
\* [...new Set(ids)]: the first occurrences, in order.
RECURSIVE Dedupe(_)
Dedupe(ids) ==
    IF ids = <<>> THEN <<>>
    ELSE LET front == Dedupe(SubSeq(ids, 1, Len(ids) - 1))
             last == ids[Len(ids)]
         IN  IF last \in Elems(front) THEN front ELSE Append(front, last)

CoinIdsOf(investments) == [i \in DOMAIN investments |-> investments[i].coinId]

\* The percentage taken of the invested amount in local currency.
calculateInvestmentMetricsLocal(investment, data) ==
    LET currentValueUSD == RMul(investment.quantity, data.currentPriceUSD)
        currentValueLocal == RMul(investment.quantity, data.currentPriceLocal)
        investedAmountUSD ==
            IF investment.originalCurrency = "USD" THEN investment.investedAmount
            ELSE RDiv(investment.investedAmount, investment.exchangeRate)
        profitLossUSD == RSub(currentValueUSD, investedAmountUSD)
    IN  [coinId |-> investment.coinId,
         status |-> investment.status,
         investedAmount |-> investment.investedAmount,
         quantity |-> investment.quantity,
         currentPrice |-> data.currentPriceUSD,
         currentPriceLocal |-> data.currentPriceLocal,
         currentValue |-> currentValueUSD,
         currentValueLocal |-> currentValueLocal,
         profitLoss |-> profitLossUSD,
         profitLossLocal |-> RSub(currentValueLocal, investment.investedAmount),
         profitLossPercentage |->
             RMul(RDiv(profitLossUSD, investment.investedAmount), Num(100)),
         exchangeRate |-> data.exchangeRate]

\* calculateInvestmentMetrics(investment, data)
calculateInvestmentMetrics(investment, data) ==
    LET currentValueUSD == RMul(investment.quantity, data.currentPriceUSD)
        currentValueLocal == RMul(investment.quantity, data.currentPriceLocal)
        investedAmountUSD ==
            IF investment.originalCurrency = "USD" THEN investment.investedAmount
            ELSE RDiv(investment.investedAmount,
                      IF Truthy(investment.exchangeRate) THEN investment.exchangeRate
                      ELSE Num(280))
        profitLossUSD == RSub(currentValueUSD, investedAmountUSD)
    IN  [coinId |-> investment.coinId,
         status |-> investment.status,
         investedAmount |-> investment.investedAmount,
         quantity |-> investment.quantity,
         currentPrice |-> data.currentPriceUSD,
         currentPriceLocal |-> data.currentPriceLocal,
         currentValue |-> currentValueUSD,
         currentValueLocal |-> currentValueLocal,
         profitLoss |-> profitLossUSD,
         profitLossLocal |-> RSub(currentValueLocal, investment.investedAmount),
         profitLossPercentage |->
             IF RLt(Num(0), investedAmountUSD)
             THEN RMul(RDiv(profitLossUSD, investedAmountUSD), Num(100))
             ELSE Num(0),
         exchangeRate |-> data.exchangeRate]

\* createInvestmentWithFallback(investment, userCurrency)
createInvestmentWithFallback(investment, cur) ==
    LET fallbackPrice == getFallbackPrices(<<investment.coinId>>, cur)[investment.coinId]
        currentPriceUSD == IF Truthy(fallbackPrice.usd) THEN fallbackPrice.usd ELSE Num(0)
        currentPriceLocal ==
            IF cur = "USD" THEN currentPriceUSD
            ELSE IF Truthy(fallbackPrice.local) THEN fallbackPrice.local
            ELSE RMul(currentPriceUSD, Num(280))
    IN  calculateInvestmentMetrics(investment,
            [currentPriceUSD |-> currentPriceUSD, currentPriceLocal |-> currentPriceLocal,
             exchangeRate |-> Num(280)])

\* The body of investments.map(...) in enrichInvestments.
EnrichOne(investment, prices, cur, exchangeRate) ==
    LET coinData == prices[investment.coinId]
    IN  IF ~coinData.has
        THEN createInvestmentWithFallback(investment, cur)
        ELSE calculateInvestmentMetrics(investment,
                 [currentPriceUSD |-> coinData.usd,
                  currentPriceLocal |->
                      IF cur = "USD" THEN coinData.usd
                      ELSE IF Truthy(coinData.local) THEN coinData.local
                      ELSE RMul(coinData.usd, exchangeRate),
                  exchangeRate |-> exchangeRate])

\* The rest of enrichInvestments once getPrices has returned g. getPrices
\* sorts coinIds in place, so coinIds[0] is the first sorted id.
EnrichAll(investments, cur, coinIds, g) ==
    LET first == g.result[SortIds(coinIds)[1]]
        exchangeRate == IF cur = "USD" THEN Num(1)
                        ELSE IF Truthy(first.exchange_rate) THEN first.exchange_rate
                        ELSE Num(280)
    IN  [list |-> [i \in DOMAIN investments |->
                      EnrichOne(investments[i], g.result, cur, exchangeRate)],
         prices |-> g.result, cache |-> g.cache, fx |-> g.fx]

\* enrichInvestments(investments, userCurrency), the price source reacting
\* as po: the enriched list, the quotes used and the caches afterwards.
enrichInvestments(investments, cur, cache, fxc, t, po, fxo) ==
    IF investments = <<>>
    THEN [list |-> <<>>, prices |-> NoPrices, cache |-> cache, fx |-> fxc]
    ELSE CHOOSE r \in
             {EnrichAll(investments, cur, coinIds, g) :
                 coinIds \in {Dedupe(CoinIdsOf(investments))},
                 g \in {getPrices(Dedupe(CoinIdsOf(investments)), cur, FALSE,
                                  cache, fxc, t, po, fxo)}} : TRUE

\* The running sums of getPortfolioAnalytics.
RECURSIVE SumField(_, _)
SumField(list, f) ==
    IF list = <<>> THEN Num(0)
    ELSE RAdd(SumField(SubSeq(list, 1, Len(list) - 1), f), list[Len(list)][f])

\* coinPerformance[coinId] after the forEach, completed by the map.
CoinPerformance(list, c) ==
    LET OfCoin(e) == e.coinId = c
        mine == SelectSeq(list, OfCoin)
        totalInvested == SumField(mine, "investedAmount")
        totalCurrentValue == SumField(mine, "currentValueLocal")
        totalQuantity == SumField(mine, "quantity")
        totalProfitLoss == RSub(totalCurrentValue, totalInvested)
    IN  [coinId |-> c,
         totalInvested |-> totalInvested,
         totalCurrentValue |-> totalCurrentValue,
         totalProfitLoss |-> totalProfitLoss,
         avgPurchasePrice |-> IF RLt(Num(0), totalQuantity)
                              THEN RDiv(totalInvested, totalQuantity) ELSE Num(0),
         totalQuantity |-> totalQuantity,
         profitLossPercentage |->
             IF RLt(Num(0), totalInvested)
             THEN RMul(RDiv(totalProfitLoss, totalInvested), Num(100))
             ELSE Num(0)]

NoPerformer == "null"

\* bestPerformer replaced also by a coin with an equal percentage.
RECURSIVE BestPerformerLast(_, _)
BestPerformerLast(breakdown, n) ==
    IF n = 0 THEN "null"
    ELSE LET best == BestPerformerLast(breakdown, n - 1)
             IsBest(b) == b.coinId = best
         IN  IF best = "null"
                \/ RLe(SelectSeq(breakdown, IsBest)[1].profitLossPercentage,
                       breakdown[n].profitLossPercentage)
             THEN breakdown[n].coinId
             ELSE best

\* bestPerformer after the first n coins of the breakdown.
RECURSIVE BestPerformer(_, _)
BestPerformer(breakdown, n) ==
    IF n = 0 THEN NoPerformer
    ELSE LET best == BestPerformer(breakdown, n - 1)
             IsBest(b) == b.coinId = best
         IN  IF best = NoPerformer
                \/ RLt(SelectSeq(breakdown, IsBest)[1].profitLossPercentage,
                       breakdown[n].profitLossPercentage)
             THEN breakdown[n].coinId
             ELSE best

RECURSIVE WorstPerformer(_, _)
WorstPerformer(breakdown, n) ==
    IF n = 0 THEN NoPerformer
    ELSE LET worst == WorstPerformer(breakdown, n - 1)
             IsWorst(b) == b.coinId = worst
         IN  IF worst = NoPerformer
                \/ RLt(breakdown[n].profitLossPercentage,
                       SelectSeq(breakdown, IsWorst)[1].profitLossPercentage)
             THEN breakdown[n].coinId
             ELSE worst

\* The share taken of the amount invested in the coin.
AllocationPercentageOfInvested(coin, totalCurrentValue) ==
    IF RLt(Num(0), totalCurrentValue)
    THEN RMul(RDiv(coin.totalInvested, totalCurrentValue), Num(100))
    ELSE Num(0)

\* The guard answering 100 for an empty total.
AllocationPercentageFull(coin, totalCurrentValue) ==
    IF RLt(Num(0), totalCurrentValue)
    THEN RMul(RDiv(coin.totalCurrentValue, totalCurrentValue), Num(100))
    ELSE Num(100)

\* allocation[coin.coinId].percentage
AllocationPercentage(coin, totalCurrentValue) ==
    IF RLt(Num(0), totalCurrentValue)
    THEN RMul(RDiv(coin.totalCurrentValue, totalCurrentValue), Num(100))
    ELSE Num(0)

\* A zeroed snapshot whose percentage is the unguarded 0 / 0.
EmptySnapshotUnguarded ==
    [totalInvested |-> Num(0), totalCurrentValue |-> Num(0), totalProfitLoss |-> Num(0),
     totalProfitLossPercentage |-> Undef, bestPerformer |-> "null",
     worstPerformer |-> "null", count |-> 0, coinBreakdown |-> <<>>,
     allocation |-> <<>>]

\* The snapshot of an empty enriched list (lines 216-229).
EmptySnapshot ==
    [totalInvested |-> Num(0), totalCurrentValue |-> Num(0), totalProfitLoss |-> Num(0),
     totalProfitLossPercentage |-> Num(0), bestPerformer |-> NoPerformer,
     worstPerformer |-> NoPerformer, count |-> 0, coinBreakdown |-> <<>>,
     allocation |-> <<>>]

\* Object.values(coinPerformance): the coins in the order they first occur.
CoinBreakdown(list) ==
    LET coins == Dedupe(CoinIdsOf(list))
    IN  [k \in DOMAIN coins |-> CoinPerformance(list, coins[k])]

\* The snapshot returned, the totals and the breakdown computed.
SnapshotOf(list, totalInvested, totalCurrentValue, totalProfitLoss, coinBreakdown) ==
    [totalInvested |-> totalInvested,
     totalCurrentValue |-> totalCurrentValue,
     totalProfitLoss |-> totalProfitLoss,
     totalProfitLossPercentage |->
         IF RLt(Num(0), totalInvested)
         THEN RMul(RDiv(totalProfitLoss, totalInvested), Num(100))
         ELSE Num(0),
     bestPerformer |-> BestPerformer(coinBreakdown, Len(coinBreakdown)),
     worstPerformer |-> WorstPerformer(coinBreakdown, Len(coinBreakdown)),
     count |-> Len(list),
     coinBreakdown |-> coinBreakdown,
     allocation |->
         [k \in DOMAIN coinBreakdown |->
             [coinId |-> coinBreakdown[k].coinId,
              percentage |-> AllocationPercentage(coinBreakdown[k], totalCurrentValue),
              amount |-> coinBreakdown[k].totalCurrentValue]]]

\* The snapshot computed from a non-empty enriched list (lines 231-306).
Snapshot(list) ==
    CHOOSE r \in
        {SnapshotOf(list, totalInvested, totalCurrentValue, totalProfitLoss, coinBreakdown) :
            totalInvested \in {SumField(list, "investedAmount")},
            totalCurrentValue \in {SumField(list, "currentValueLocal")},
            totalProfitLoss \in {SumField(list, "profitLossLocal")},
            coinBreakdown \in {CoinBreakdown(list)}} : TRUE

\* The result of getPortfolioAnalytics for the enrichment e.
Analyse(e) ==
    [analytics |-> IF e.list = <<>> THEN EmptySnapshot ELSE Snapshot(e.list),
     list |-> e.list, prices |-> e.prices, cache |-> e.cache, fx |-> e.fx]

\* getPortfolioAnalytics(investments, userCurrency)
getPortfolioAnalytics(investments, cur, cache, fxc, t, po, fxo) ==
    CHOOSE r \in
        {Analyse(e) : e \in {enrichInvestments(investments, cur, cache, fxc, t, po, fxo)}} :
            TRUE

(***************************************************************************)
(* Transactions and budgets: updateBudgetSpent and the Budget model.       *)
(* Dates are days; amounts are whole rupees, which the set/get rounding of *)
(* `spent` to two decimals leaves as they are.                             *)
(***************************************************************************)
MaxTxns == 2       \* Transaction documents
MaxBudgets == 2    \* Budget documents

TxnIds == 1..MaxTxns

Categories == {"Food", "Transportation"}

TxnTypes == {"income", "expense"}

TxnAmounts == {100, 250}

\* new Date() of the requests, and the first day of its month.
Today == 10

StartOfMonth == 0

\* The dates of the transactions: inside every period that starts today,
\* and after the end of the weekly one.
TxnDates == {12, 20}

Periods == {"weekly", "monthly"}

NoTransaction ==
    [exists |-> FALSE, amount |-> 0, type |-> "income", category |-> "Food", date |-> 0]

\* The bodies the validators of router.post('/') let through.
TransactionBodies ==
    [exists : {TRUE}, amount : TxnAmounts, type : TxnTypes, category : Categories,
     date : TxnDates]

\* The bodies of router.put('/:id'): 0 and "" stand for an absent field.
TransactionPatches ==
    [amount : TxnAmounts \cup {0}, type : TxnTypes \cup {""}, category : Categories \cup {""}]

\* findOneAndUpdate(..., { ...req.body }, { new: true })
ApplyPatch(t, patch) ==
    [t EXCEPT !.amount = IF patch.amount = 0 THEN @ ELSE patch.amount,
              !.type = IF patch.type = "" THEN @ ELSE patch.type,
              !.category = IF patch.category = "" THEN @ ELSE patch.category]

\* endDate of the switch on budget.period (a month of 31 days).
EndDate(startDate, period) ==
    startDate + (CASE period = "weekly" -> 7
                   [] period = "monthly" -> 31
                   [] OTHER -> 365)

\* transaction.date >= startDate && transaction.date < endDate
InPeriod(date, budget) ==
    date >= budget.startDate /\ date < EndDate(budget.startDate, budget.period)

\* Budget.findOne({ userId, category, isActive: true }): the index of the
\* first such document, 0 for none.
FindBudget(bs, category) ==
    LET found == {i \in DOMAIN bs : bs[i].category = category /\ bs[i].isActive}
    IN  IF found = {} THEN 0 ELSE CHOOSE i \in found : \A j \in found : i <= j

\* budgetSchema.pre('save'): `old` is the document as loaded.
BudgetPreSave(old, budget) ==
    IF budget.period = "monthly" /\ budget.spent # old.spent
          /\ budget.startDate < StartOfMonth
    THEN [budget EXCEPT !.startDate = StartOfMonth, !.spent = 0]
    ELSE budget

\* budget.save() of the document at index i with its spent set: validation
\* (spent min 0) fails into the catch of updateBudgetSpent, otherwise the
\* hook runs and the document is written.
SaveSpent(bs, i, spent) ==
    IF spent < 0 THEN bs
    ELSE [bs EXCEPT ![i] = BudgetPreSave(bs[i], [bs[i] EXCEPT !.spent = spent])]

Max0(x) == IF x < 0 THEN 0 ELSE x

\* The first block of updateBudgetSpent: the old category's budget.
DecrementOld(bs, transaction, oldAmount, oldCategory) ==
    LET i == FindBudget(bs, oldCategory)
    IN  IF oldCategory # "" /\ oldCategory # transaction.category /\ i # 0
           /\ InPeriod(transaction.date, bs[i])
        THEN SaveSpent(bs, i, Max0(bs[i].spent -
                 (IF oldAmount # 0 THEN oldAmount ELSE transaction.amount)))
        ELSE bs

\* The second block: the budget of the transaction's category.
UpdateCurrent(bs, transaction, isDelete, oldAmount) ==
    LET i == FindBudget(bs, transaction.category)
    IN  IF i # 0 /\ InPeriod(transaction.date, bs[i])
        THEN SaveSpent(bs, i,
                 IF isDelete THEN Max0(bs[i].spent - transaction.amount)
                 ELSE bs[i].spent +
                      (IF oldAmount # 0 THEN transaction.amount - oldAmount
                       ELSE transaction.amount))
        ELSE bs

\* updateBudgetSpent(userId, transaction, isDelete, oldAmount, oldCategory):
\* the budgets afterwards. 0 and "" stand for null.
updateBudgetSpent(bs, transaction, isDelete, oldAmount, oldCategory) ==
    IF transaction.type # "expense" THEN bs
    ELSE UpdateCurrent(DecrementOld(bs, transaction, oldAmount, oldCategory),
                       transaction, isDelete, oldAmount)

\* The sum of the amounts of the expense transactions of ts[1..n] in the
\* category and with a date in [startDate, endDate).
RECURSIVE SpentIn(_, _, _, _, _)
SpentIn(ts, n, category, startDate, endDate) ==
    IF n = 0 THEN 0
    ELSE SpentIn(ts, n - 1, category, startDate, endDate)
         + (IF /\ ts[n].exists
               /\ ts[n].type = "expense"
               /\ ts[n].category = category
               /\ ts[n].date >= startDate
               /\ ts[n].date < endDate
            THEN ts[n].amount ELSE 0)

(***************************************************************************)
(* The state after construction.                                           *)
(***************************************************************************)
NoCall ==
    [pc |-> "idle", ids |-> <<>>, cur |-> "USD", force |-> FALSE, how |-> "",
     result |-> NoPrices, requests |-> 0]

NoFxCall ==
    [op |-> "", amount |-> Undef, from |-> "USD", to |-> "USD", value |-> Undef,
     contacted |-> <<>>, readCache |-> FALSE]

NoCreated == [code |-> 0, error |-> "", investment |-> NoDoc]

NoView ==
    [op |-> "", prices |-> NoPrices, investments |-> <<>>, analyticsPrices |-> NoPrices,
     analyticsInvestments |-> <<>>, analytics |-> EmptySnapshot, exchangeRate |-> Undef,
     document |-> NoDoc]

Init ==
    /\ now = 1000
    /\ fx = EmptyFx
    /\ fxCall = NoFxCall
    /\ priceCache = {}
    /\ call = [c \in 1..MaxCalls |-> NoCall]
    /\ inv = NoDoc
    /\ created = NoCreated
    /\ req = [r \in Reqs |-> IdleReq]
    /\ folio = <<>>
    /\ view = NoView
    /\ transactions = [i \in TxnIds |-> NoTransaction]
    /\ budgets = <<>>

(***************************************************************************)
(* router.post('/'): create an investment.                                 *)
(***************************************************************************)
Create(body, fxo, po1, po2) ==
    /\ ~inv.exists
    /\ \E cv \in {convert(Num(1), "USD", "PKR", fx, now, fxo)} :
       \E pr \in {getPrices(<<body.coinId>>, "USD", FALSE, priceCache, cv.cache, now, po1, fxo)} :
       \E data \in {InvestmentData(body, cv.value, pr.result[body.coinId].usd)} :
         IF ~Truthy(pr.result[body.coinId].usd)
         THEN /\ created' = [code |-> 400, error |-> "Unable to fetch current market price",
                             investment |-> NoDoc]
              /\ inv' = inv
              /\ fx' = pr.fx
              /\ priceCache' = pr.cache
         ELSE IF ~Validate(data)
         THEN /\ created' = [code |-> 400, error |-> "ValidationError", investment |-> NoDoc]
              /\ inv' = inv
              /\ fx' = pr.fx
              /\ priceCache' = pr.cache
         ELSE \E doc \in {PreSave(NoDoc, data)} :
              \E en \in {getPrices(<<body.coinId>>, "PKR", FALSE, pr.cache, pr.fx, now, po2, fxo)} :
                /\ created' = [code |-> 201, error |-> "", investment |-> doc]
                /\ inv' = doc
                /\ fx' = en.fx
                /\ priceCache' = en.cache
    /\ UNCHANGED <<now, fxCall, call, req, folio, view, transactions, budgets>>

(***************************************************************************)
(* router.post('/:id/sell'): the lookup and the quantity check, then, after *)
(* the awaits, the computation, the save, the enrichment and the response. *)
(***************************************************************************)
SellFind(r, body) ==
    /\ req[r].pc = "idle"
    /\ \A q \in Reqs : q < r => req[q].pc # "idle"
    /\ IF ~(inv.exists /\ inv.status \in {"active", "partial"})
       THEN req' = [req EXCEPT ![r] = [@ EXCEPT !.pc = "done", !.body = body, !.code = 404,
                                          !.error = "Investment not found or already sold"]]
       ELSE IF OverSell(body, inv)
       THEN req' = [req EXCEPT ![r] = [@ EXCEPT !.pc = "done", !.body = body, !.code = 400,
                                          !.error = "Cannot sell more"]]
       ELSE req' = [req EXCEPT ![r] = [@ EXCEPT !.pc = "found", !.body = body, !.doc = inv]]
    /\ UNCHANGED <<now, fx, fxCall, priceCache, call, inv, created, folio, view, transactions, budgets>>

SellSave(r, fxo, po) ==
    /\ req[r].pc = "found"
    /\ \E cv \in {convert(Num(1), "USD", "PKR", fx, now, fxo)} :
       \E old \in {req[r].doc} :
       \E doc \in {SellAssign(req[r].body, old, cv.value)} :
         IF ~Validate(doc)
         THEN /\ inv' = inv
              /\ fx' = cv.cache
              /\ priceCache' = priceCache
              /\ req' = [req EXCEPT ![r] = [@ EXCEPT !.pc = "done", !.code = 500,
                                               !.error = "Failed to sell investment"]]
         ELSE \E saved \in {PreSave(old, doc)} :
              \E en \in {getPrices(<<saved.coinId>>, "PKR", FALSE, priceCache, cv.cache,
                                   now, po, fxo)} :
                /\ inv' = WriteModified(inv, old, saved)
                /\ fx' = en.fx
                /\ priceCache' = en.cache
                /\ req' = [req EXCEPT ![r] =
                              [@ EXCEPT !.pc = "done", !.code = 200, !.doc = saved,
                                        !.saleSummary = SaleSummary(req[r].body, old, cv.value)]]
    /\ UNCHANGED <<now, fxCall, call, created, folio, view, transactions, budgets>>

\* A sell request that arrives while no other one is being handled.
SellFindAlone(r, body) ==
    /\ \A q \in Reqs : req[q].pc \in {"idle", "done"}
    /\ SellFind(r, body)

\* In the sell specifications the primary rate source answers and the price
\* source is down: the stored document and the sale summary depend on
\* neither.
SellFx == {o \in FxOutcomes : o.primary.ok /\ ~o.secondary.ok}

SellPrice(ids) == {o \in PriceOutcomes(ids) : o.kind = "error"}

Next ==
    \/ \E body \in CreateBodies, fxo \in SellFx :
         \E po1, po2 \in SellPrice({body.coinId}) : Create(body, fxo, po1, po2)
    \/ \E r \in Reqs, body \in SellBodies : SellFind(r, body)
    \/ \E r \in Reqs, fxo \in SellFx :
         \E po \in SellPrice({req[r].doc.coinId}) : SellSave(r, fxo, po)

Spec == Init /\ [][Next]_vars

NextSeq ==
    \/ \E body \in CreateBodies, fxo \in SellFx :
         \E po1, po2 \in SellPrice({body.coinId}) : Create(body, fxo, po1, po2)
    \/ \E r \in Reqs, body \in SellBodies : SellFindAlone(r, body)
    \/ \E r \in Reqs, fxo \in SellFx :
         \E po \in SellPrice({req[r].doc.coinId}) : SellSave(r, fxo, po)

SpecSeq == Init /\ [][NextSeq]_vars

(***************************************************************************)
(* The sell processor: claims C1 to C6.                                    *)
(***************************************************************************)
\* A sell request whose save succeeds in this step.
Saves(r) == req[r].pc = "found" /\ req'[r].pc = "done" /\ req'[r].code = 200

Succeeded(r) == req[r].pc = "done" /\ req[r].code = 200

\* C1: every accepted sell of the whole stored quantity q leaves the stored
\* status `sold`, and every accepted sell of less than q leaves the stored
\* status `partial` and the stored quantity q - sellQuantity, the pre-save
\* hook included.
C1_SellStatus ==
    [][\A r \in Reqs :
         Saves(r) =>
           IF req[r].body.sellQuantity = inv.quantity
           THEN inv'.status = "sold"
           ELSE /\ inv'.status = "partial"
                /\ inv'.quantity = RSub(inv.quantity, req[r].body.sellQuantity)]_vars

\* C2: a sell request for more than the stored quantity is rejected with an
\* error when it is looked up, whatever its price and date, and the stored
\* investment stays exactly as it was.
C2_OverSellRejected ==
    [][\A r \in Reqs :
         (/\ req[r].pc = "idle"
          /\ req'[r].pc # "idle"
          /\ inv.exists
          /\ inv.status \in {"active", "partial"}
          /\ RLt(inv.quantity, req'[r].body.sellQuantity))
         => /\ req'[r].pc = "done"
            /\ req'[r].code = 400
            /\ inv' = inv]_vars

C2_Witness ==
    \E r \in Reqs :
        /\ req[r].pc = "done"
        /\ req[r].code = 400
        /\ inv.exists
        /\ RLt(inv.quantity, req[r].body.sellQuantity)

RECURSIVE SumSold(_)
SumSold(n) ==
    IF n = 0 THEN Num(0)
    ELSE RAdd(SumSold(n - 1),
              IF Succeeded(n) THEN req[n].body.sellQuantity ELSE Num(0))

\* C3: the quantities of the sell requests that succeed sum to at most the
\* quantity the investment had before them, however the requests interleave.
C3_NoDoubleSell ==
    created.code = 201 => RLe(SumSold(MaxReqs), created.investment.quantity)

\* C4: once the stored status is `sold`, no sell request changes the stored
\* status, quantity or invested amount, also not one that read the record
\* before it became sold.
C4_SoldTerminal ==
    [][(inv.exists /\ inv.status = "sold")
         => /\ inv'.status = "sold"
            /\ inv'.quantity = inv.quantity
            /\ inv'.investedAmount = inv.investedAmount]_vars

\* C5: a partial sell of s units at price p from a lot read with quantity q
\* and invested amount I reports proceeds s*p and realized profit
\* s*p - (s/q)*I, and stores quantity q - s and invested amount I - (s/q)*I,
\* so that the unit cost of the lot is unchanged.
C5_PartialSell ==
    [][\A r \in Reqs :
         (Saves(r) /\ RLt(req[r].body.sellQuantity, req[r].doc.quantity)) =>
           LET s == req[r].body.sellQuantity
               p == req[r].body.sellPriceLocal
               q == req[r].doc.quantity
               I == req[r].doc.investedAmount
               portion == RDiv(RMul(s, I), q)
           IN  /\ req'[r].saleSummary.saleAmountLocal = RMul(s, p)
               /\ req'[r].saleSummary.realizedProfitLossLocal = RSub(RMul(s, p), portion)
               /\ inv'.quantity = RSub(q, s)
               /\ inv'.investedAmount = RSub(I, portion)
               /\ RMul(inv'.investedAmount, q) = RMul(I, inv'.quantity)]_vars

\* The example: 0.004 of a 0.01 lot bought for 100000, sold at 11000000.
C5_Witness ==
    \E r \in Reqs :
        /\ req[r].pc = "done"
        /\ req[r].code = 200
        /\ req[r].body.sellQuantity = Rat(4, 1000)
        /\ created.investment.quantity = Rat(1, 100)
        /\ req[r].saleSummary.saleAmountLocal = Num(44000)
        /\ req[r].saleSummary.realizedProfitLossLocal = Num(4000)
        /\ inv.quantity = Rat(6, 1000)
        /\ inv.investedAmount = Num(60000)

\* C6: in every stored investment, purchasePriceLocal * quantity equals
\* investedAmount, after creation and after every sell.
C6_PurchasePrice ==
    inv.exists => RMul(inv.purchasePriceLocal, inv.quantity) = inv.investedAmount

C6_Witness ==
    /\ inv.exists
    /\ inv.quantity # created.investment.quantity
    /\ inv.investedAmount # created.investment.investedAmount
    /\ \E r \in Reqs : req[r].pc = "done" /\ req[r].code = 200

(***************************************************************************)
(* getPrices calls against the price cache. A call sends its request and   *)
(* waits (axios.create sets no timeout); the source's reply, if one comes, *)
(* resumes it. Calls interleave at the await.                              *)
(***************************************************************************)
Calls == 1..MaxCalls

PriceCurrencies == {"USD", "PKR"}

PriceCall(c, ids, cur, force) ==
    /\ call[c].pc = "idle"
    /\ \A d \in Calls : d < c => call[d].pc # "idle"
    /\ LET b == PricesBegin(ids, cur, force, priceCache, now)
       IN  /\ priceCache' = b.cache
           /\ call' = [call EXCEPT ![c] =
                          [@ EXCEPT !.pc = IF b.returned THEN "done" ELSE "fetching",
                                    !.ids = ids, !.cur = cur, !.force = force,
                                    !.how = b.how, !.result = b.result,
                                    !.requests = IF b.returned THEN 0 ELSE 1]]
    /\ UNCHANGED <<now, fx, fxCall, inv, created, req, folio, view, transactions, budgets>>

\* The price source reacts to the request of call c, which resumes: the
\* response is handled or the error caught.
SourceReplies(c, po, fxo) ==
    /\ call[c].pc = "fetching"
    /\ LET e == PricesEnd(call[c].ids, call[c].cur, po, priceCache, fx, now, fxo)
       IN  /\ priceCache' = e.cache
           /\ fx' = e.fx
           /\ call' = [call EXCEPT ![c] =
                          [@ EXCEPT !.pc = "done", !.how = e.how, !.result = e.result]]
    /\ UNCHANGED <<now, fxCall, inv, created, req, folio, view, transactions, budgets>>

\* Two thirds of the ttl of the price cache pass.
TickPrices ==
    /\ now < 1000 + MaxTicks * 40000
    /\ now' = now + 40000
    /\ UNCHANGED <<fx, fxCall, priceCache, call, inv, created, req, folio, view, transactions, budgets>>

\* During price calls the rate sources are both up or both down, and the
\* market does not move: the source quotes one price per coin.
PriceFx == {o \in FxOutcomes : o.primary.ok = o.secondary.ok}

PriceReplies(ids) == {o \in PriceOutcomes(ids) : o.market = "up"}

NextPrices ==
    \/ \E c \in Calls, ids \in IdLists, cur \in PriceCurrencies, force \in BOOLEAN :
         PriceCall(c, ids, cur, force)
    \/ \E c \in Calls, fxo \in PriceFx :
         \E po \in PriceReplies(validIds(call[c].ids)) : SourceReplies(c, po, fxo)
    \/ TickPrices

SpecPrices == Init /\ [][NextPrices]_vars

\* A getPrices call is complete when it has an entry for every requested
\* recognized id and none for any other id.
Complete(ids, result) ==
    \A id \in CoinIds : result[id].has <=> (id \in Elems(ids) /\ id \in SupportedIds)

\* The call asked the source and got an error or an empty response.
SourceFailed(c) ==
    call[c].pc = "done" /\ call[c].requests > 0 /\ call[c].how \in {"stale", "fallback"}

\* C7: a getPrices call whose request to the price source fails or comes
\* back empty returns an entry for every requested recognized id and none
\* for an unrecognized id.
C7_FailureComplete ==
    \A c \in Calls : SourceFailed(c) => Complete(call[c].ids, call[c].result)

\* C8: whatever way a getPrices call returns (cache hit, fetch, stale cache,
\* fallback), its map has an entry for every requested recognized id and
\* none for an unrecognized id.
C8_AlwaysComplete ==
    \A c \in Calls : call[c].pc = "done" => Complete(call[c].ids, call[c].result)

(***************************************************************************)
(* One getPrices call, its own steps and the clock weakly fair. The reply  *)
(* of the source is not: the source may never answer.                      *)
(***************************************************************************)
NextPricesFair ==
    \/ \E ids \in IdLists, cur \in PriceCurrencies, force \in BOOLEAN :
         PriceCall(1, ids, cur, force)
    \/ \E fxo \in PriceFx :
         \E po \in PriceReplies(validIds(call[1].ids)) : SourceReplies(1, po, fxo)
    \/ TickPrices

SpecPricesFair ==
    /\ Init
    /\ [][NextPricesFair]_vars
    /\ WF_vars(\E ids \in IdLists, cur \in PriceCurrencies, force \in BOOLEAN :
                  PriceCall(1, ids, cur, force))
    /\ WF_vars(TickPrices)

\* C9: every getPrices call that has sent its request eventually returns.
C9_Returns == \A c \in Calls : (call[c].pc = "fetching") ~> (call[c].pc = "done")

(***************************************************************************)
(* convert and getRate calls against the rate cache.                       *)
(***************************************************************************)
Amounts == {Num(1), Num(100000)}

FxConvert(amount, from, to, fxo) ==
    /\ LET r == convert(amount, from, to, fx, now, fxo)
       IN  /\ fx' = r.cache
           /\ fxCall' = [op |-> "convert", amount |-> amount, from |-> from, to |-> to,
                         value |-> r.value, contacted |-> r.contacted,
                         readCache |-> r.readCache]
    /\ UNCHANGED <<now, priceCache, call, inv, created, req, folio, view, transactions, budgets>>

FxGetRate(from, to, fxo) ==
    /\ LET r == getRate(from, to, fx, now, fxo)
       IN  /\ fx' = r.cache
           /\ fxCall' = [op |-> "getRate", amount |-> Undef, from |-> from, to |-> to,
                         value |-> r.value, contacted |-> r.contacted,
                         readCache |-> r.readCache]
    /\ UNCHANGED <<now, priceCache, call, inv, created, req, folio, view, transactions, budgets>>

\* Half an hour passes: half the ttl of the rate cache.
TickFx ==
    /\ now < 1000 + MaxTicks * 1800000
    /\ now' = now + 1800000
    /\ UNCHANGED <<fx, fxCall, priceCache, call, inv, created, req, folio, view, transactions, budgets>>

NextFx ==
    \/ \E amount \in Amounts, from \in Currencies, to \in Currencies, fxo \in AnyFxOutcomes :
         FxConvert(amount, from, to, fxo)
    \/ \E from \in Currencies, to \in Currencies, fxo \in AnyFxOutcomes :
         FxGetRate(from, to, fxo)
    \/ TickFx

SpecFx == Init /\ [][NextFx]_vars

\* C10: a convert or getRate call with equal currencies returns the amount
\* (the rate 1) unchanged, contacts no rate source and neither reads nor
\* changes the rate cache, be the cache empty, fresh or expired.
C10_SameCurrency ==
    [][(fxCall'.op # "" /\ fxCall'.from = fxCall'.to) =>
         /\ fxCall'.value = IF fxCall'.op = "convert" THEN fxCall'.amount ELSE Num(1)
         /\ fxCall'.contacted = <<>>
         /\ ~fxCall'.readCache
         /\ fx' = fx]_vars

\* A same-currency conversion made while the cached table has expired.
C10_Witness ==
    /\ fxCall.op = "convert"
    /\ fxCall.from = "PKR"
    /\ fxCall.to = "PKR"
    /\ fxCall.value = Num(100000)
    /\ fx.filled
    /\ ~FxCacheValid(fx, now)

\* The table a convert or getRate call between different currencies worked
\* with: the one it left in the cache.
Unusable(c) == ~Truthy(fx.rates[c])

\* C11: every convert and getRate call returns a number, whatever the rate
\* sources did; when the table has no usable rate for one of the two
\* currencies, convert returns the amount unchanged and getRate returns 1,
\* except between PKR and USD, where the fixed rate 280 is applied.
C11_Degrades ==
    [][(fxCall'.op # "" /\ fxCall'.from # fxCall'.to) =>
         /\ fxCall'.value # Undef
         /\ fxCall'.value[2] > 0
         /\ (~Truthy(fx'.rates[fxCall'.from]) \/ ~Truthy(fx'.rates[fxCall'.to])) =>
              fxCall'.value =
                  IF fxCall'.from = "USD" /\ fxCall'.to = "PKR"
                  THEN IF fxCall'.op = "convert" THEN RMul(fxCall'.amount, Num(280))
                       ELSE Num(280)
                  ELSE IF fxCall'.from = "PKR" /\ fxCall'.to = "USD"
                  THEN IF fxCall'.op = "convert" THEN RDiv(fxCall'.amount, Num(280))
                       ELSE Rat(1, 280)
                  ELSE IF fxCall'.op = "convert" THEN fxCall'.amount ELSE Num(1)]_vars

\* A conversion from USD to PKR on a table whose PKR rate is 0.
C11_Witness ==
    /\ fxCall.op = "convert"
    /\ fxCall.from = "USD"
    /\ fxCall.to = "PKR"
    /\ Unusable("PKR")
    /\ fxCall.amount = Num(100000)
    /\ fxCall.value = Num(28000000)

(***************************************************************************)
(* router.get('/'): the valuation of the user's investments.               *)
(***************************************************************************)
MaxHoldings == 2    \* investments of the user

\* An Investment document as the create and sell routes leave it.
Holding(coin, lot, cur, status) ==
    [NoDoc EXCEPT !.exists = TRUE,
                  !.coinId = coin,
                  !.investedAmount = lot[1],
                  !.quantity = lot[2],
                  !.originalCurrency = cur,
                  !.exchangeRate = Num(280),
                  !.purchasePriceLocal = RDiv(lot[1], lot[2]),
                  !.purchasePriceUSD = RDiv(RDiv(lot[1], lot[2]), Num(280)),
                  !.sellDate = IF status = "active" THEN NoDate ELSE "2024-06-01",
                  !.sellQuantity = IF status = "active" THEN Undef
                                   ELSE IF status = "sold" THEN lot[2] ELSE Lots(1),
                  !.status = status]

HoldingLots == {<<Num(100000), Lots(5)>>, <<Num(60000), Lots(3)>>}

\* Documents in PKR in every status, and active ones bought in USD.
Holdings ==
    {Holding(coin, lot, "PKR", status) :
        coin \in SupportedIds, lot \in HoldingLots, status \in {"active", "partial", "sold"}}
    \cup {Holding(coin, <<Num(400), Lots(5)>>, "USD", "active") : coin \in SupportedIds}

Folios == UNION {[1..n -> Holdings] : n \in 0..MaxHoldings}

\* The data calculateInvestmentMetrics is handed: a price of 12000000 PKR
\* per unit at the rate 280, and one of 14250000 at 285.
MetricData ==
    {[currentPriceUSD |-> Rat(12000000, 280), currentPriceLocal |-> Num(12000000),
      exchangeRate |-> Num(280)],
     [currentPriceUSD |-> Num(50000), currentPriceLocal |-> Num(14250000),
      exchangeRate |-> Num(285)]}

InitFolio ==
    /\ now = 1000
    /\ fx = EmptyFx
    /\ fxCall = NoFxCall
    /\ priceCache = {}
    /\ call = [c \in 1..MaxCalls |-> NoCall]
    /\ inv = NoDoc
    /\ created = NoCreated
    /\ req = [r \in Reqs |-> IdleReq]
    /\ folio \in Folios
    /\ view = NoView
    /\ transactions = [i \in TxnIds |-> NoTransaction]
    /\ budgets = <<>>

\* The whole handler: the rate, the enrichment, the analytics (which enrich
\* once more), the response. find() carries no filter on the status. The
\* price source reacts as po1 to the request of the route's enrichment, if
\* it makes one, and as po2 to that of the analytics.
GetInvestments(fxo, po1, po2) ==
    /\ \E cv \in {convert(Num(1), "USD", "PKR", fx, now, fxo)} :
       \E e \in {enrichInvestments(folio, "PKR", priceCache, cv.cache, now, po1, fxo)} :
       \E a \in {getPortfolioAnalytics(folio, "PKR", e.cache, e.fx, now, po2, fxo)} :
         /\ view' = [op |-> "get", prices |-> e.prices, investments |-> e.list,
                     analyticsPrices |-> a.prices, analyticsInvestments |-> a.list,
                     analytics |-> a.analytics, exchangeRate |-> cv.value,
                     document |-> NoDoc]
         /\ priceCache' = a.cache
         /\ fx' = a.fx
    /\ UNCHANGED <<now, fxCall, call, inv, created, req, folio, transactions, budgets>>

\* calculateInvestmentMetrics applied to a document and a price.
CalcMetrics(investment, data) ==
    /\ view' = [NoView EXCEPT !.op = "metrics",
                              !.investments = <<calculateInvestmentMetrics(investment, data)>>,
                              !.exchangeRate = data.exchangeRate,
                              !.document = investment]
    /\ UNCHANGED <<now, fx, fxCall, priceCache, call, inv, created, req, folio, transactions, budgets>>

FolioIds == validIds(CoinIdsOf(folio))

\* In SpecFolio the price source reacts to the requests of one handler in
\* one way.
NextFolio ==
    \/ \E fxo \in PriceFx :
         \E po \in PriceReplies(FolioIds) : GetInvestments(fxo, po, po)
    \/ \E i \in DOMAIN folio, data \in MetricData : CalcMetrics(folio[i], data)

SpecFolio == InitFolio /\ [][NextFolio]_vars

Valued == view.op = "get"

\* C12: an investment for whose asset the quotes hold no entry is emitted
\* with current price, current value, profit/loss and percentage unavailable,
\* never with a number.
C12_Unavailable ==
    Valued =>
        \A i \in DOMAIN view.investments :
            ~view.prices[folio[i].coinId].has =>
                /\ view.investments[i].currentPrice = Undef
                /\ view.investments[i].currentPriceLocal = Undef
                /\ view.investments[i].currentValue = Undef
                /\ view.investments[i].currentValueLocal = Undef
                /\ view.investments[i].profitLoss = Undef
                /\ view.investments[i].profitLossLocal = Undef
                /\ view.investments[i].profitLossPercentage = Undef

NotSold(list) ==
    LET Open(e) == e.status # "sold"
    IN  SelectSeq(list, Open)

\* C13: a sold investment is given no current value and no unrealized
\* profit/loss, and the totals, the per-asset breakdown and the allocation of
\* the snapshot are those of the active and partial investments alone.
C13_SoldExcluded ==
    Valued =>
        /\ \A i \in DOMAIN view.investments :
               folio[i].status = "sold" =>
                   /\ view.investments[i].currentValueLocal = Undef
                   /\ view.investments[i].profitLossLocal = Undef
        /\ view.analytics.totalInvested
               = SumField(NotSold(view.analyticsInvestments), "investedAmount")
        /\ view.analytics.totalCurrentValue
               = SumField(NotSold(view.analyticsInvestments), "currentValueLocal")
        /\ \A k \in DOMAIN view.analytics.coinBreakdown :
               \E i \in DOMAIN folio :
                   /\ folio[i].coinId = view.analytics.coinBreakdown[k].coinId
                   /\ folio[i].status # "sold"
        /\ \A k \in DOMAIN view.analytics.allocation :
               view.analytics.allocation[k].amount
                   = CoinPerformance(NotSold(view.analyticsInvestments),
                                     view.analytics.allocation[k].coinId).totalCurrentValue

\* C14: the valuation of an empty set of investments answers with a snapshot
\* whose four totals are 0, whose breakdown and allocation are empty and
\* whose best and worst performer are none.
C14_EmptySnapshot ==
    (Valued /\ folio = <<>>) =>
        /\ view.analytics.totalInvested = Num(0)
        /\ view.analytics.totalCurrentValue = Num(0)
        /\ view.analytics.totalProfitLoss = Num(0)
        /\ view.analytics.totalProfitLossPercentage = Num(0)
        /\ view.analytics.coinBreakdown = <<>>
        /\ view.analytics.allocation = <<>>
        /\ view.analytics.bestPerformer = NoPerformer
        /\ view.analytics.worstPerformer = NoPerformer
        /\ view.investments = <<>>

C14_Witness == Valued /\ folio = <<>> /\ view.analytics.count = 0

FullyPriced ==
    /\ folio # <<>>
    /\ \A i \in DOMAIN folio : view.analyticsPrices[folio[i].coinId].has
    /\ RLt(Num(0), view.analytics.totalCurrentValue)

\* C15: in the snapshot of a non-empty portfolio all of whose investments
\* have a quote and whose total current value is positive, the allocation
\* percentages sum to 100, and the percentage of each asset is the sum of the
\* current values of its investments over the total current value, times 100.
C15_Allocation ==
    (Valued /\ FullyPriced) =>
        /\ SumField(view.analytics.allocation, "percentage") = Num(100)
        /\ \A k \in DOMAIN view.analytics.allocation :
               LET OfCoin(e) == e.coinId = view.analytics.allocation[k].coinId
                   mine == SelectSeq(view.analyticsInvestments, OfCoin)
               IN  view.analytics.allocation[k].percentage
                       = RMul(RDiv(SumField(mine, "currentValueLocal"),
                                   view.analytics.totalCurrentValue), Num(100))
        /\ \A i \in DOMAIN folio :
               \E k \in DOMAIN view.analytics.allocation :
                   view.analytics.allocation[k].coinId = folio[i].coinId

\* Two assets, each with its own share.
C15_Witness ==
    /\ Valued
    /\ FullyPriced
    /\ Len(view.analytics.allocation) = 2
    /\ view.analytics.allocation[1].percentage # view.analytics.allocation[2].percentage

\* The metrics the claim states for investment i with the quote q.
Metrics16(investment, m, priceUSD, priceLocal) ==
    LET investedAmountUSD ==
            IF investment.originalCurrency = "USD" THEN investment.investedAmount
            ELSE RDiv(investment.investedAmount, investment.exchangeRate)
        profitLossUSD == RSub(RMul(investment.quantity, priceUSD), investedAmountUSD)
    IN  /\ m.currentPriceLocal = priceLocal
        /\ m.currentValueLocal = RMul(investment.quantity, priceLocal)
        /\ m.profitLossLocal = RSub(m.currentValueLocal, investment.investedAmount)
        /\ m.profitLoss = profitLossUSD
        /\ m.profitLossPercentage = RMul(RDiv(profitLossUSD, investedAmountUSD), Num(100))

SourceError == [kind |-> "error", answered |-> {}, market |-> "up"]

Fails(c) == \E fxo \in PriceFx : SourceReplies(c, SourceError, fxo)

KeyOf(c) == cacheKey(call[c].ids, call[c].cur)

\* C17: a getPrices call whose request fails returns the value held under
\* its cache key, the last one fetched for it, also when that value is older
\* than the ttl, and returns the fallback table only when the cache holds
\* nothing for the key.
C17_StaleOnFailure ==
    [][\A c \in Calls :
         Fails(c) =>
           IF \E e \in priceCache : e.key = KeyOf(c)
           THEN \E e \in priceCache : e.key = KeyOf(c) /\ call'[c].result = e.data
           ELSE call'[c].result = getFallbackPrices(call[c].ids, call[c].cur)]_vars

\* Call c starts in this step.
Starts(c) == call[c].pc = "idle" /\ call'[c].pc # "idle"

\* C18: a getPrices call without forceRefresh whose key was filled less
\* than 60 s ago returns the cached map and sends no request; every call
\* sends at most one request, and one whenever it misses with a valid id;
\* and an entry enters the cache only as the non-empty result of a fetch.
C18_CacheUse ==
    [][/\ \A c \in Calls :
            (/\ Starts(c)
             /\ ~call'[c].force
             /\ \E e \in priceCache :
                    /\ e.key = cacheKey(call'[c].ids, call'[c].cur)
                    /\ now - (e.expires - 60000) < 60000) =>
               /\ call'[c].pc = "done"
               /\ call'[c].requests = 0
               /\ \E e \in priceCache :
                      /\ e.key = cacheKey(call'[c].ids, call'[c].cur)
                      /\ call'[c].result = e.data
       /\ \A c \in Calls :
            /\ call'[c].requests <= 1
            /\ (Starts(c) /\ call'[c].pc = "fetching") =>
                   /\ call'[c].requests = 1
                   /\ validIds(call'[c].ids) # {}
            /\ (Starts(c) /\ call'[c].pc = "done") => call'[c].requests = 0
       /\ \A e \in priceCache' \ priceCache :
            /\ \E id \in CoinIds : e.data[id].has
            /\ \E c \in Calls :
                   /\ call[c].pc = "fetching"
                   /\ call'[c].pc = "done"
                   /\ call'[c].how = "fetched"
                   /\ call'[c].result = e.data
                   /\ e.key = KeyOf(c)]_vars

\* A call answered from the cache 40 s after the fetch that filled it.
C18_Witness ==
    \E c, d \in Calls :
        /\ call[c].how = "fetched"
        /\ call[d].pc = "done"
        /\ call[d].how = "cached"
        /\ call[d].requests = 0
        /\ KeyOf(c) = KeyOf(d)
        /\ now = 41000

\* C19: two getPrices calls use the same cache key exactly when they have
\* the same currency and the same set of ids, whatever the order and the
\* repetitions of the ids in their lists.
C19_KeyBySet ==
    \A c, d \in Calls :
        (call[c].pc # "idle" /\ call[d].pc # "idle") =>
            (KeyOf(c) = KeyOf(d)
                <=> (call[c].cur = call[d].cur /\ Elems(call[c].ids) = Elems(call[d].ids)))

(***************************************************************************)
(* The rate sources: claim C20.                                            *)
(***************************************************************************)
\* The step is a convert or getRate call between two currencies during
\* which the sources behave as fxo.
RateCall(fxo) ==
    /\ fxCall'.from # fxCall'.to
    /\ \/ /\ fxCall'.op = "convert"
          /\ FxConvert(fxCall'.amount, fxCall'.from, fxCall'.to, fxo)
       \/ /\ fxCall'.op = "getRate"
          /\ FxGetRate(fxCall'.from, fxCall'.to, fxo)

\* C20: a call of getExchangeRates that does not answer from its cache asks
\* the primary source first and the secondary source only when the primary
\* one failed; it returns the static table alone only when both failed; and
\* the table it returns always lists PKR and USD.
C20_SourceOrder ==
    [][\A fxo \in AnyFxOutcomes :
         RateCall(fxo) =>
           /\ fxCall'.contacted =
                  IF FxCacheValid(fx, now) THEN <<>>
                  ELSE IF fxo.primary.ok THEN <<"primary">>
                  ELSE <<"primary", "secondary">>
           /\ (~FxCacheValid(fx, now) /\ fx'.rates = fallbackRates) =>
                  (~fxo.primary.ok /\ ~fxo.secondary.ok)
           /\ (~FxCacheValid(fx, now) /\ ~fxo.primary.ok /\ ~fxo.secondary.ok) =>
                  fx'.rates = fallbackRates
           /\ fx'.rates["PKR"] # Undef
           /\ fx'.rates["USD"] # Undef]_vars

\* The primary source failed and the secondary one answered.
C20_Witness ==
    /\ fxCall.contacted = <<"primary", "secondary">>
    /\ fx.rates["JPY"] = Num(151)
    /\ fx.rates["PKR"] = Num(280)

(***************************************************************************)
(* The rate cache over time: claims C21 and C28.                           *)
(***************************************************************************)
\* The step is a convert or getRate call that reaches getExchangeRates.
ReadsRates == now' = now /\ fxCall'.op # "" /\ fxCall'.from # fxCall'.to

\* C21: a getExchangeRates call made less than an hour after the timestamp of
\* the cached table returns that table and contacts no source; a call made
\* an hour or more after it, or on an empty cache, contacts a source and
\* stores a table with the time of the call; and the passing of time alone
\* leaves the cache as it is.
C21_LazyRefresh ==
    [][/\ ReadsRates =>
            IF fx.filled /\ now - fx.timestamp < 3600000
            THEN /\ fxCall'.contacted = <<>>
                 /\ fx' = fx
            ELSE /\ fxCall'.contacted # <<>>
                 /\ fx'.filled
                 /\ fx'.timestamp = now
       /\ now' # now => fx' = fx]_vars

\* A table fetched at the start and fetched again exactly one hour later.
C21_Witness ==
    /\ fx.filled
    /\ fx.timestamp = 3601000
    /\ fxCall.contacted # <<>>

\* C28: a refresh during which both rate sources fail stores the static
\* table with the time of the call, and while that table is less than an
\* hour old no convert or getRate call contacts a source, whatever the
\* sources would answer.
C28_FallbackCached ==
    [][/\ \A fxo \in AnyFxOutcomes :
            (/\ RateCall(fxo)
             /\ ~(fx.filled /\ now - fx.timestamp < 3600000)
             /\ ~fxo.primary.ok
             /\ ~fxo.secondary.ok) =>
               fx' = [filled |-> TRUE, rates |-> fallbackRates, timestamp |-> now]
       /\ (/\ ReadsRates
           /\ fx.filled
           /\ fx.rates = fallbackRates
           /\ now - fx.timestamp < 3600000) =>
              /\ fxCall'.contacted = <<>>
              /\ fx' = fx]_vars

\* Half an hour after the failed refresh a conversion is made on the static
\* table, no source contacted.
C28_Witness ==
    /\ fx.filled
    /\ fx.rates = fallbackRates
    /\ now = fx.timestamp + 1800000
    /\ fxCall.op = "convert"
    /\ fxCall.from = "USD"
    /\ fxCall.to = "EUR"
    /\ fxCall.contacted = <<>>
    /\ fxCall.value = RMul(fxCall.amount, Rat(92, 100))

(***************************************************************************)
(* calculateInvestmentMetrics and the aggregation as functions of their    *)
(* arguments: plain investment objects and the prices handed to them.      *)
(***************************************************************************)
\* The objects valued: the lots of HoldingLots and one with nothing
\* invested, of either coin.
Positions ==
    {Holding(coin, lot, "PKR", "active") :
        coin \in SupportedIds, lot \in HoldingLots \cup {<<Num(0), Lots(5)>>}}

PositionLists == UNION {[1..n -> Positions] : n \in 1..MaxHoldings}

\* The prices handed to calculateInvestmentMetrics, by coin: the source's,
\* the fallback table's, and a market in which every price is 0.
PriceSheets ==
    {[c \in SupportedIds |->
         [currentPriceUSD |-> SourcePrice(c, "up"),
          currentPriceLocal |-> RMul(SourcePrice(c, "up"), Num(280)),
          exchangeRate |-> Num(280)]],
     [c \in SupportedIds |->
         [currentPriceUSD |-> fallbackUsd(c),
          currentPriceLocal |-> RMul(fallbackUsd(c), Num(280)),
          exchangeRate |-> Num(280)]],
     [c \in SupportedIds |->
         [currentPriceUSD |-> Num(0), currentPriceLocal |-> Num(0),
          exchangeRate |-> Num(280)]]}

InitMetrics ==
    /\ now = 1000
    /\ fx = EmptyFx
    /\ fxCall = NoFxCall
    /\ priceCache = {}
    /\ call = [c \in 1..MaxCalls |-> NoCall]
    /\ inv = NoDoc
    /\ created = NoCreated
    /\ req = [r \in Reqs |-> IdleReq]
    /\ folio \in PositionLists
    /\ view = NoView
    /\ transactions = [i \in TxnIds |-> NoTransaction]
    /\ budgets = <<>>

\* The objects valued at the prices of the sheet and aggregated.
Aggregate(sheet) ==
    /\ \E list \in {[i \in DOMAIN folio |->
                        calculateInvestmentMetrics(folio[i], sheet[folio[i].coinId])]} :
         view' = [NoView EXCEPT !.op = "aggregate",
                                !.investments = list,
                                !.analyticsInvestments = list,
                                !.analytics = Snapshot(list),
                                !.exchangeRate = Num(280)]
    /\ UNCHANGED <<now, fx, fxCall, priceCache, call, inv, created, req, folio, transactions, budgets>>

NextMetrics == \E sheet \in PriceSheets : Aggregate(sheet)

SpecMetrics == InitMetrics /\ [][NextMetrics]_vars

Aggregated == view.op = "aggregate"

IsNumber(x) == x # Undef /\ x[2] > 0

\* C22: every percentage of the valuation and of the snapshot is a number;
\* an investment's percentage is 0 when nothing was invested in it, an
\* asset's and the total percentage are 0 when the invested sum is 0, and
\* every allocation percentage is 0 when the total current value is 0.
C22_NoDivisionByZero ==
    Aggregated =>
        /\ \A i \in DOMAIN view.investments :
               /\ IsNumber(view.investments[i].profitLossPercentage)
               /\ folio[i].investedAmount = Num(0) =>
                      view.investments[i].profitLossPercentage = Num(0)
        /\ \A k \in DOMAIN view.analytics.coinBreakdown :
               /\ IsNumber(view.analytics.coinBreakdown[k].profitLossPercentage)
               /\ view.analytics.coinBreakdown[k].totalInvested = Num(0) =>
                      view.analytics.coinBreakdown[k].profitLossPercentage = Num(0)
        /\ IsNumber(view.analytics.totalProfitLossPercentage)
        /\ view.analytics.totalInvested = Num(0) =>
               view.analytics.totalProfitLossPercentage = Num(0)
        /\ \A k \in DOMAIN view.analytics.allocation :
               /\ IsNumber(view.analytics.allocation[k].percentage)
               /\ view.analytics.totalCurrentValue = Num(0) =>
                      view.analytics.allocation[k].percentage = Num(0)

\* Nothing invested and every price 0.
C22_Witness ==
    /\ Aggregated
    /\ view.analytics.totalInvested = Num(0)
    /\ view.analytics.totalCurrentValue = Num(0)
    /\ Len(view.analytics.allocation) = 2
    /\ view.analytics.allocation[1].percentage = Num(0)
    /\ view.investments[1].profitLossPercentage = Num(0)

\* The place of a coin in the breakdown.
PlaceOf(coinId) ==
    CHOOSE k \in DOMAIN view.analytics.coinBreakdown :
        view.analytics.coinBreakdown[k].coinId = coinId

\* C23: the breakdown lists the assets in the order of their first
\* investment in the input; bestPerformer is an asset of the breakdown with
\* the greatest percentage and worstPerformer one with the least, and of
\* several assets with that percentage the first of the breakdown is chosen.
C23_Performers ==
    Aggregated =>
        LET breakdown == view.analytics.coinBreakdown
            best == view.analytics.bestPerformer
            worst == view.analytics.worstPerformer
        IN  /\ [k \in DOMAIN breakdown |-> breakdown[k].coinId] = Dedupe(CoinIdsOf(folio))
            /\ \E k \in DOMAIN breakdown : breakdown[k].coinId = best
            /\ \E k \in DOMAIN breakdown : breakdown[k].coinId = worst
            /\ \A k \in DOMAIN breakdown :
                   /\ RLe(breakdown[k].profitLossPercentage,
                          breakdown[PlaceOf(best)].profitLossPercentage)
                   /\ RLe(breakdown[PlaceOf(worst)].profitLossPercentage,
                          breakdown[k].profitLossPercentage)
                   /\ breakdown[k].profitLossPercentage
                          = breakdown[PlaceOf(best)].profitLossPercentage
                      => PlaceOf(best) <= k
                   /\ breakdown[k].profitLossPercentage
                          = breakdown[PlaceOf(worst)].profitLossPercentage
                      => PlaceOf(worst) <= k

\* Two assets with the same percentage, ethereum bought first.
C23_Witness ==
    /\ Aggregated
    /\ Len(view.analytics.coinBreakdown) = 2
    /\ folio[1].coinId = "ethereum"
    /\ view.analytics.coinBreakdown[1].profitLossPercentage
           = view.analytics.coinBreakdown[2].profitLossPercentage
    /\ view.analytics.coinBreakdown[1].profitLossPercentage # Num(0)
    /\ view.analytics.bestPerformer = "ethereum"
    /\ view.analytics.worstPerformer = "ethereum"

(***************************************************************************)
(* The stored investment over creation and sequences of sells: claims C24  *)
(* to C26 and C29.                                                         *)
(***************************************************************************)
SellFieldsUnset(doc) ==
    /\ doc.sellDate = NoDate
    /\ doc.sellQuantity = Undef
    /\ doc.sellPriceLocal = Undef
    /\ doc.sellPriceUSD = Undef

\* C24: a stored investment with status `active` has its sell fields
\* unset, and the investment stored by a successful create request is
\* `active` with its sell fields unset, whatever else the body carries.
C24_ActiveUnsold ==
    /\ (inv.exists /\ inv.status = "active") => SellFieldsUnset(inv)
    /\ created.code = 201 =>
           /\ created.investment.status = "active"
           /\ SellFieldsUnset(created.investment)

\* The quantity and the invested amount stored before request n, the
\* requests being handled one after the other in the order of their numbers.
RECURSIVE QuantityBefore(_)
QuantityBefore(n) ==
    IF n = 1 THEN created.investment.quantity
    ELSE IF Succeeded(n - 1)
              /\ RLt(req[n - 1].body.sellQuantity, QuantityBefore(n - 1))
         THEN RSub(QuantityBefore(n - 1), req[n - 1].body.sellQuantity)
         ELSE QuantityBefore(n - 1)

IsPartialSell(n) ==
    Succeeded(n) /\ RLt(req[n].body.sellQuantity, QuantityBefore(n))

RECURSIVE InvestedBefore(_)
InvestedBefore(n) ==
    IF n = 1 THEN created.investment.investedAmount
    ELSE IF IsPartialSell(n - 1)
         THEN RSub(InvestedBefore(n - 1),
                   RMul(RDiv(req[n - 1].body.sellQuantity, QuantityBefore(n - 1)),
                        InvestedBefore(n - 1)))
         ELSE InvestedBefore(n - 1)

\* (sellQuantity / quantity-before) * investedAmount-before of request n
PortionOf(n) ==
    RMul(RDiv(req[n].body.sellQuantity, QuantityBefore(n)), InvestedBefore(n))

RECURSIVE SumPortions(_)
SumPortions(n) ==
    IF n = 0 THEN Num(0)
    ELSE RAdd(SumPortions(n - 1), IF IsPartialSell(n) THEN PortionOf(n) ELSE Num(0))

RECURSIVE SumPartialSold(_)
SumPartialSold(n) ==
    IF n = 0 THEN Num(0)
    ELSE RAdd(SumPartialSold(n - 1),
              IF IsPartialSell(n) THEN req[n].body.sellQuantity ELSE Num(0))

\* C25: while every successful sell of an investment was a partial one, the
\* invested portions of the sells plus the stored investedAmount equal the
\* investedAmount the investment was created with, and the sold quantities
\* plus the stored quantity equal the quantity it was created with.
C25_CostBasisConserved ==
    (created.code = 201 /\ \A r \in Reqs : Succeeded(r) => IsPartialSell(r)) =>
        /\ RAdd(SumPortions(MaxReqs), inv.investedAmount)
               = created.investment.investedAmount
        /\ RAdd(SumPartialSold(MaxReqs), inv.quantity) = created.investment.quantity

\* Two partial sells of one lot each out of five.
C25_Witness ==
    /\ created.code = 201
    /\ created.investment.quantity = Lots(5)
    /\ created.investment.investedAmount = Num(100000)
    /\ \A r \in Reqs : IsPartialSell(r) /\ req[r].body.sellQuantity = Lots(1)
    /\ inv.quantity = Lots(3)
    /\ inv.investedAmount = Num(60000)
    /\ SumPortions(MaxReqs) = Num(40000)

\* C26: a successful sell leaves in the stored record the date, price,
\* quantity and realized profit/loss of that sell alone, whatever the sells
\* before it left there.
C26_LastSellOnly ==
    [][\A r \in Reqs :
         Saves(r) =>
           /\ inv'.sellDate = req[r].body.sellDate
           /\ inv'.sellPriceLocal = req[r].body.sellPriceLocal
           /\ RMul(req[r].body.sellQuantity, inv'.sellPriceUSD)
                  = req'[r].saleSummary.saleAmountUSD
           /\ inv'.sellQuantity = req[r].body.sellQuantity
           /\ inv'.realizedProfitLoss
                  = RSub(SoldAmountLocal(req[r].body),
                         InvestedPortionLocal(req[r].body, inv))
           /\ inv'.realizedProfitLossPercentage
                  = req'[r].saleSummary.realizedProfitLossPercentage]_vars

\* A second sell of another quantity at another price after a first one.
C26_Witness ==
    /\ \A r \in Reqs : Succeeded(r)
    /\ req[1].body.sellQuantity = Lots(1)
    /\ req[1].body.sellPriceLocal = Num(11000000)
    /\ req[2].body.sellQuantity = Lots(2)
    /\ req[2].body.sellPriceLocal = Num(9000000)
    /\ inv.sellQuantity = Lots(2)
    /\ inv.sellPriceLocal = Num(9000000)
    /\ inv.realizedProfitLoss
           = RSub(SoldAmountLocal(req[2].body), PortionOf(2))

\* C29: a sell request for at most the stored quantity of an active or
\* partial investment passes the lookup, and then succeeds and is stored.
C29_ValidSellSucceeds ==
    [][\A r \in Reqs :
         /\ (/\ req[r].pc = "idle"
             /\ req'[r].pc # "idle"
             /\ inv.exists
             /\ inv.status \in {"active", "partial"}
             /\ RLe(req'[r].body.sellQuantity, inv.quantity))
            => req'[r].pc = "found"
         /\ (req[r].pc = "found" /\ req'[r].pc = "done")
            => /\ req'[r].code = 200
               /\ inv'.sellQuantity = req[r].body.sellQuantity]_vars

(***************************************************************************)
(* router.get('/') with a price source whose availability changes between  *)
(* the two enrichments of one request.                                     *)
(***************************************************************************)
\* The source fails, or answers for every id asked for.
MixedReplies(ids) ==
    {SourceError, [kind |-> "answer", answered |-> ids, market |-> "up"]}

NextFolioMixed ==
    \E fxo \in PriceFx :
        \E po1, po2 \in MixedReplies(FolioIds) : GetInvestments(fxo, po1, po2)

SpecFolioMixed == InitFolio /\ [][NextFolioMixed]_vars

\* C27: the total current value of the analytics of a response is the sum
\* of the current values of the investments of that response.
C27_SamePrices ==
    Valued =>
        view.analytics.totalCurrentValue
            = SumField(view.investments, "currentValueLocal")

(***************************************************************************)
(* The transaction routes and router.post('/') of the budgets.             *)
(***************************************************************************)
\* router.post('/') of budgets.js: startDate is new Date(), spent the sum
\* of the matching transactions; a budget of the category and period that
\* exists already is answered with 400.
CreateBudget(category, period) ==
    /\ Len(budgets) < MaxBudgets
    /\ IF \E i \in DOMAIN budgets :
              /\ budgets[i].category = category
              /\ budgets[i].period = period
              /\ budgets[i].isActive
       THEN budgets' = budgets
       ELSE \E data \in {[category |-> category, period |-> period, startDate |-> Today,
                          isActive |-> TRUE,
                          spent |-> SpentIn(transactions, MaxTxns, category, Today,
                                            EndDate(Today, period))]} :
              budgets' = Append(budgets,
                                BudgetPreSave([data EXCEPT !.spent = 0], data))
    /\ UNCHANGED <<now, fx, fxCall, priceCache, call, inv, created, req, folio, view,
                   transactions>>

\* router.post('/') of transactions.js
CreateTransaction(i, body) ==
    /\ ~transactions[i].exists
    /\ \A j \in TxnIds : j < i => transactions[j].exists
    /\ transactions' = [transactions EXCEPT ![i] = body]
    /\ budgets' = IF body.type = "expense"
                  THEN updateBudgetSpent(budgets, body, FALSE, 0, "")
                  ELSE budgets
    /\ UNCHANGED <<now, fx, fxCall, priceCache, call, inv, created, req, folio, view>>

\* router.put('/:id')
UpdateTransaction(i, patch) ==
    /\ transactions[i].exists
    /\ \E oldTransaction \in {transactions[i]} :
       \E transaction \in {ApplyPatch(transactions[i], patch)} :
         /\ transactions' = [transactions EXCEPT ![i] = transaction]
         /\ budgets' =
              IF oldTransaction.type = "expense" /\ transaction.type = "expense"
              THEN updateBudgetSpent(budgets, transaction, FALSE,
                                     oldTransaction.amount, oldTransaction.category)
              ELSE IF oldTransaction.type = "expense"
              THEN updateBudgetSpent(budgets, oldTransaction, TRUE, 0, "")
              ELSE IF transaction.type = "expense"
              THEN updateBudgetSpent(budgets, transaction, FALSE, 0, "")
              ELSE budgets
    /\ UNCHANGED <<now, fx, fxCall, priceCache, call, inv, created, req, folio, view>>

\* router.delete('/:id')
DeleteTransaction(i) ==
    /\ transactions[i].exists
    /\ transactions' = [transactions EXCEPT ![i] = NoTransaction]
    /\ budgets' = IF transactions[i].type = "expense"
                  THEN updateBudgetSpent(budgets, transactions[i], TRUE, 0, "")
                  ELSE budgets
    /\ UNCHANGED <<now, fx, fxCall, priceCache, call, inv, created, req, folio, view>>

NextLedger ==
    \/ \E category \in Categories, period \in Periods : CreateBudget(category, period)
    \/ \E i \in TxnIds, body \in TransactionBodies : CreateTransaction(i, body)
    \/ \E i \in TxnIds, patch \in TransactionPatches : UpdateTransaction(i, patch)
    \/ \E i \in TxnIds : DeleteTransaction(i)

SpecLedger == Init /\ [][NextLedger]_vars

\* C30: the stored spent of every active budget is the sum of the amounts
\* of the expense transactions of its category dated within its period.
C30_SpentIsSum ==
    \A i \in DOMAIN budgets :
        budgets[i].isActive =>
            budgets[i].spent
                = SpentIn(transactions, MaxTxns, budgets[i].category, budgets[i].startDate,
                          EndDate(budgets[i].startDate, budgets[i].period))

====
